---- MODULE Spec2Model ----
(***************************************************************************)
(* Model of the two molecular-weight-distribution drivers                  *)
(*   src/output/output_data/PDI/comparison_MWD_con.py     ("con")          *)
(*   src/output/output_data/PDI/comparison_MWD_con_50.py  ("con50")        *)
(*                                                                         *)
(* A file is either missing or a sequence of whitespace-separated tokens;  *)
(* a token is a sequence of characters.  Floats are exact fractions        *)
(* <<num, den>>; a zero denominator is what numpy yields for a division by *)
(* zero (NaN for 0/0, +-Inf otherwise).  The numerical values of scipy's   *)
(* kernel density estimate are not computed: the trapezoidal integral the  *)
(* code takes of them is an input of the step, in units of 1e-9.           *)
(***************************************************************************)
EXTENDS Integers, Sequences, FiniteSets, TLC

VARIABLES driver, pc, file, frame, loop, processed_datasets,
          successful_plots, figures, sample, bins, result

vars == <<driver, pc, file, frame, loop, processed_datasets,
          successful_plots, figures, sample, bins, result>>

(***************************************************************************)
(* Bounds of the model.                                                    *)
(***************************************************************************)
MaxTokens == 3
MaxBatchTokens == 2
MaxNorm == 2
MaxSample == 3
MaxHistLen == 3
MaxHistVal == 4
MaxBins == 3

(***************************************************************************)
(* Program constants.                                                      *)
(***************************************************************************)
MinLen == 3
NumPoints == 500
NumBins == 25
NormEps == 1
PadTenths == 1

conv_points == <<"10", "15", "20", "25", "30", "35", "40", "45", "50">>
bases == <<"1e5", "1e7">>
subfolders == <<"2", "4", "8", "20">>
folders == <<"2", "4", "8", "20">>
datasets_info == <<[label_prefix |-> "1e5", style |-> "histogram"],
                   [label_prefix |-> "1e7", style |-> "line"]>>

(***************************************************************************)
(* Optional values, sequences, fractions.                                  *)
(***************************************************************************)
None == <<>>
Some(v) == <<v>>
IsSome(o) == o # <<>>
Get(o) == o[1]

RECURSIVE SeqSum(_)
SeqSum(s) == IF s = <<>> THEN 0 ELSE s[1] + SeqSum(Tail(s))

RECURSIVE SeqSumSq(_)
SeqSumSq(s) == IF s = <<>> THEN 0 ELSE s[1] * s[1] + SeqSumSq(Tail(s))

SeqMin(s) == CHOOSE m \in {s[i] : i \in 1..Len(s)} : \A i \in 1..Len(s) : m <= s[i]
SeqMax(s) == CHOOSE m \in {s[i] : i \in 1..Len(s)} : \A i \in 1..Len(s) : m >= s[i]
Max2(a, b) == IF a >= b THEN a ELSE b

Frac(n, d) == <<n, d>>
FracLess(a, b) == a[1] * b[2] < b[1] * a[2]
FracEq(a, b) == a[1] * b[2] = b[1] * a[2]

(***************************************************************************)
(* Files and tokens.  "sup2" stands for the character U+00B2 (superscript  *)
(* two), a digit for str.isdigit that int() rejects.                       *)
(***************************************************************************)
Tokens == { <<"0">>, <<"2">>, <<"3">>, <<"1", "2">>, <<"-", "3">>,
            <<"-", "1", "2">>, <<"x">>, <<"sup2">> }

TokenSeqs(n) == UNION {[1..k -> Tokens] : k \in 0..n}

MissingFile == [exists |-> FALSE, tokens |-> <<>>]
Files(n) == {MissingFile} \cup {[exists |-> TRUE, tokens |-> t] : t \in TokenSeqs(n)}

(***************************************************************************)
(* Python's str.isdigit and int on a token.                                *)
(***************************************************************************)
AsciiDigits == <<"0", "1", "2", "3", "4", "5", "6", "7", "8", "9">>
IsAsciiDigit(c) == \E d \in 1..10 : AsciiDigits[d] = c
DigitValue(c) == (CHOOSE d \in 1..10 : AsciiDigits[d] = c) - 1

str_isdigit(t) ==
    /\ Len(t) > 0
    /\ \A i \in 1..Len(t) : IsAsciiDigit(t[i]) \/ t[i] = "sup2"

IntBody(t) == IF t # <<>> /\ t[1] \in {"+", "-"} THEN Tail(t) ELSE t

int_parses(t) ==
    /\ Len(IntBody(t)) > 0
    /\ \A i \in 1..Len(IntBody(t)) : IsAsciiDigit(IntBody(t)[i])

RECURSIVE DecimalValue(_)
DecimalValue(ds) ==
    IF ds = <<>> THEN 0
    ELSE 10 * DecimalValue(SubSeq(ds, 1, Len(ds) - 1)) + DigitValue(ds[Len(ds)])

int_value(t) ==
    IF t[1] = "-" THEN 0 - DecimalValue(IntBody(t)) ELSE DecimalValue(IntBody(t))

(***************************************************************************)
(* A faulty variant of read_chain_lengths_50, which answers None for a     *)
(* file without numeric tokens as it does for a missing file.              *)
(***************************************************************************)
read_chain_lengths_50_conflated(f) ==
    IF ~f.exists THEN None
    ELSE LET digits == SelectSeq(f.tokens, str_isdigit)
         IN IF \E i \in 1..Len(digits) : ~int_parses(digits[i])
            THEN None
            ELSE LET lengths == [i \in 1..Len(digits) |-> int_value(digits[i])]
                 IN IF lengths = <<>> THEN None ELSE Some(lengths)

(***************************************************************************)
(* read_chain_lengths of comparison_MWD_con_50.py: None, or the array.     *)
(***************************************************************************)
read_chain_lengths_50(f) ==
    IF ~f.exists THEN None
    ELSE LET data == f.tokens
             digits == SelectSeq(data, str_isdigit)
         IN IF \E i \in 1..Len(digits) : ~int_parses(digits[i])
            THEN None
            ELSE LET lengths == [i \in 1..Len(digits) |-> int_value(digits[i])]
                 IN IF lengths = <<>> THEN Some(<<>>) ELSE Some(lengths)

(***************************************************************************)
(* read_chain_lengths of comparison_MWD_con.py: the array, or ValueError.  *)
(***************************************************************************)
read_chain_lengths_con(f) ==
    LET data == f.tokens
    IN IF \E i \in 1..Len(data) : ~int_parses(data[i])
       THEN [raised |-> TRUE, value |-> <<>>]
       ELSE [raised |-> FALSE,
             value |-> [i \in 1..Len(data) |-> int_value(data[i])]]

(***************************************************************************)
(* Integers of any size, as sign and magnitude; the magnitude is a         *)
(* little-endian sequence of base-256 limbs without leading zeros.  They   *)
(* carry numpy's int64 arithmetic, which wraps modulo 2^64.                *)
(***************************************************************************)
Base == 2 ^ 8

RECURSIVE NatToMag(_)
NatToMag(n) == IF n = 0 THEN <<>> ELSE <<n % Base>> \o NatToMag(n \div Base)

Limb(a, i) == IF i <= Len(a) THEN a[i] ELSE 0

RECURSIVE Trim(_)
Trim(a) == IF a # <<>> /\ a[Len(a)] = 0 THEN Trim(SubSeq(a, 1, Len(a) - 1)) ELSE a

RECURSIVE AddFrom(_, _, _, _)
AddFrom(a, b, i, c) ==
    IF i > Len(a) /\ i > Len(b)
    THEN (IF c = 0 THEN <<>> ELSE <<c>>)
    ELSE LET t == Limb(a, i) + Limb(b, i) + c
         IN <<t % Base>> \o AddFrom(a, b, i + 1, t \div Base)
MagAdd(a, b) == AddFrom(a, b, 1, 0)

RECURSIVE CmpFrom(_, _, _)
CmpFrom(a, b, i) ==
    IF i = 0 THEN 0
    ELSE IF Limb(a, i) < Limb(b, i) THEN -1
    ELSE IF Limb(a, i) > Limb(b, i) THEN 1
    ELSE CmpFrom(a, b, i - 1)
MagCmp(a, b) == CmpFrom(a, b, Max2(Len(a), Len(b)))

RECURSIVE SubFrom(_, _, _, _)
SubFrom(a, b, i, c) ==
    IF i > Len(a) THEN <<>>
    ELSE LET t == a[i] - Limb(b, i) - c
         IN IF t < 0 THEN <<t + Base>> \o SubFrom(a, b, i + 1, 1)
            ELSE <<t>> \o SubFrom(a, b, i + 1, 0)
MagSub(a, b) == Trim(SubFrom(a, b, 1, 0))

RECURSIVE MulLimbFrom(_, _, _, _)
MulLimbFrom(a, m, i, c) ==
    IF i > Len(a) THEN (IF c = 0 THEN <<>> ELSE <<c>>)
    ELSE LET t == a[i] * m + c
         IN <<t % Base>> \o MulLimbFrom(a, m, i + 1, t \div Base)

RECURSIVE MulFrom(_, _, _)
MulFrom(a, b, j) ==
    IF j > Len(b) THEN <<>>
    ELSE MagAdd(Trim(MulLimbFrom(a, b[j], 1, 0)), Trim(<<0>> \o MulFrom(a, b, j + 1)))
MagMul(a, b) == Trim(MulFrom(a, b, 1))

MkInt(neg, mag) == [neg |-> neg /\ mag # <<>>, mag |-> mag]
IntOf(n) == MkInt(n < 0, NatToMag(IF n < 0 THEN 0 - n ELSE n))
IntZero == MkInt(FALSE, <<>>)
IntIsZero(a) == a.mag = <<>>
IntNeg(a) == MkInt(~a.neg, a.mag)
IntAdd(a, b) ==
    IF a.neg = b.neg THEN MkInt(a.neg, MagAdd(a.mag, b.mag))
    ELSE IF MagCmp(a.mag, b.mag) >= 0 THEN MkInt(a.neg, MagSub(a.mag, b.mag))
    ELSE MkInt(b.neg, MagSub(b.mag, a.mag))
IntMul(a, b) == MkInt(a.neg # b.neg, MagMul(a.mag, b.mag))
IntCmp(a, b) ==
    IF a.neg /\ ~b.neg THEN -1
    ELSE IF ~a.neg /\ b.neg THEN 1
    ELSE IF a.neg THEN MagCmp(b.mag, a.mag)
    ELSE MagCmp(a.mag, b.mag)

Two63 == <<0, 0, 0, 0, 0, 0, 0, 128>>
Two64 == <<0, 0, 0, 0, 0, 0, 0, 0, 1>>
Low64(m) == Trim(SubSeq(m, 1, IF Len(m) < 8 THEN Len(m) ELSE 8))

(* The int64 that holds the exact integer z: z modulo 2^64, in [-2^63, 2^63). *)
Int64(z) ==
    LET m == Low64(z.mag)
        u == IF z.neg /\ m # <<>> THEN MagSub(Two64, m) ELSE m
    IN IF MagCmp(u, Two63) >= 0 THEN MkInt(TRUE, MagSub(Two64, u)) ELSE MkInt(FALSE, u)

int64_square(v) == Int64(IntMul(v, v))

RECURSIVE int64_sum(_)
int64_sum(s) == IF s = <<>> THEN IntZero ELSE Int64(IntAdd(s[1], int64_sum(Tail(s))))

RECURSIVE float_sum(_)
float_sum(s) == IF s = <<>> THEN IntZero ELSE IntAdd(s[1], float_sum(Tail(s)))

(***************************************************************************)
(* comparison_MWD_con.py, lines 58-60: Mn, Mw and PDI of an int64 array.   *)
(* np.mean accumulates in float64; lengths**2 and both np.sum are int64.   *)
(***************************************************************************)
MomentsCon(lengths) ==
    LET squares == [i \in 1..Len(lengths) |-> int64_square(lengths[i])]
        Mn == [num |-> float_sum(lengths), den |-> IntOf(Len(lengths))]
        Mw == [num |-> int64_sum(squares), den |-> int64_sum(lengths)]
        PDI == [num |-> IntMul(Mw.num, Mn.den), den |-> IntMul(Mw.den, Mn.num)]
    IN [Mn |-> Mn, Mw |-> Mw, PDI |-> PDI]

(***************************************************************************)
(* comparison_MWD_con_50.py, lines 63-70: the sum is an int64 (exact at    *)
(* the magnitudes of Tokens), the squares are float64.                     *)
(***************************************************************************)
MomentsCon50(filtered) ==
    LET sum_lengths == SeqSum(filtered)
        Mn == Frac(sum_lengths, Len(filtered))
        Mw == Frac(SeqSumSq(filtered), sum_lengths)
        PDI == Frac(Mw[1] * Mn[2], Mw[2] * Mn[1])
    IN [Mn |-> Mn, Mw |-> Mw, PDI |-> PDI]

(***************************************************************************)
(* scipy.stats.gaussian_kde: when the constructor raises.                  *)
(* Unweighted: fewer than two points, or zero variance (singular           *)
(* covariance).  Weighted by the data: the weights are divided by their    *)
(* sum; a zero sum, a negative normalised weight (numpy.cov rejects it) or *)
(* a zero weighted variance raise.                                         *)
(***************************************************************************)
gaussian_kde_raises(dataset) ==
    \/ Len(dataset) < 2
    \/ \A i \in 1..Len(dataset) : dataset[i] = dataset[1]

gaussian_kde_weighted_raises(dataset) ==
    \/ Len(dataset) < 2
    \/ SeqSum(dataset) = 0
    \/ \E i \in 1..Len(dataset) : dataset[i] * SeqSum(dataset) < 0
    \/ \A i, j \in 1..Len(dataset) :
          (dataset[i] # 0 /\ dataset[j] # 0) => dataset[i] = dataset[j]

(***************************************************************************)
(* np.linspace(lo, hi, n): the grid and its i-th point (0-based).          *)
(***************************************************************************)
linspace(lo, hi, n) == [lo |-> lo, hi |-> hi, n |-> n]
GridPoint(g, i) ==
    Frac(g.lo[1] * g.hi[2] * (g.n - 1) + i * (g.hi[1] * g.lo[2] - g.lo[1] * g.hi[2]),
         g.lo[2] * g.hi[2] * (g.n - 1))

NormFactors == 0..MaxNorm

(***************************************************************************)
(* comparison_MWD_con_50.py, line 55: chain_lengths[chain_lengths >= 3],   *)
(* after a faulty variant with a strict bound.                             *)
(***************************************************************************)
filtered_strictly_above(chain_lengths) ==
    SelectSeq(chain_lengths, LAMBDA v : v > MinLen)

filtered_chain_lengths(chain_lengths) ==
    SelectSeq(chain_lengths, LAMBDA v : v >= MinLen)

(***************************************************************************)
(* comparison_MWD_con_50.py, lines 98-102: the curve returned for a        *)
(* normalization factor norm (units of 1e-9), by its area; after a faulty  *)
(* variant that divides without the guard of line 98.                      *)
(***************************************************************************)
w_vals_unguarded(norm) ==
    [all_zero |-> FALSE, area |-> Frac(norm, norm)]

w_vals_normalized(norm) ==
    IF norm <= NormEps
    THEN [all_zero |-> TRUE, area |-> Frac(0, 1)]
    ELSE [all_zero |-> FALSE, area |-> Frac(norm, norm)]

(***************************************************************************)
(* process_and_get_mwd_data(filepath, label_prefix) of                     *)
(* comparison_MWD_con_50.py, as the frame of its locals when it returns.   *)
(* norm is the value trapz(w_unnormalized, x_vals) takes, in units of 1e-9.*)
(***************************************************************************)
Frame50 ==
    [chain_lengths |-> None, total_chains |-> None,
     filtered_chain_lengths |-> None, removed_chains |-> None,
     sum_lengths |-> None, stats |-> None, x_vals |-> None,
     norm_factor |-> None, y_vals |-> None, exit |-> "", ret |-> None]

process_and_get_mwd_data(f, label_prefix, norm) ==
    LET chain_lengths == read_chain_lengths_50(f)
        F1 == [Frame50 EXCEPT !.chain_lengths = chain_lengths]
    IN
    IF chain_lengths = None THEN [F1 EXCEPT !.exit = "read_failed"]
    ELSE IF Len(Get(chain_lengths)) = 0 THEN [F1 EXCEPT !.exit = "empty"]
    ELSE
    LET total_chains == Len(Get(chain_lengths))
        filtered == filtered_chain_lengths(Get(chain_lengths))
        removed_chains == total_chains - Len(filtered)
        F2 == [F1 EXCEPT !.total_chains = Some(total_chains),
                         !.filtered_chain_lengths = Some(filtered),
                         !.removed_chains = Some(removed_chains)]
    IN
    IF Len(filtered) = 0 THEN [F2 EXCEPT !.exit = "none_valid"]
    ELSE
    LET sum_lengths == SeqSum(filtered)
        F3 == [F2 EXCEPT !.sum_lengths = Some(sum_lengths)]
    IN
    IF sum_lengths = 0 THEN [F3 EXCEPT !.exit = "zero_sum"]
    ELSE
    LET stats == MomentsCon50(filtered)
        F4 == [F3 EXCEPT !.stats = Some(stats)]
    IN
    IF gaussian_kde_raises(filtered) THEN [F4 EXCEPT !.exit = "kde_error"]
    ELSE
    LET N == Len(filtered)
        min_val == Frac(Max2(0, 10 * N * SeqMin(filtered) - PadTenths * sum_lengths), 10 * N)
        max_val == Frac(10 * N * SeqMax(filtered) + PadTenths * sum_lengths, 10 * N)
        x_vals == linspace(min_val, max_val, NumPoints)
        y_vals == w_vals_normalized(norm)
    IN [F4 EXCEPT !.x_vals = Some(x_vals),
                  !.norm_factor = Some(norm),
                  !.y_vals = Some(y_vals),
                  !.exit = "returned",
                  !.ret = Some([x_vals |-> x_vals, y_vals |-> y_vals,
                                label |-> [prefix |-> label_prefix,
                                           Mn |-> stats.Mn, PDI |-> stats.PDI],
                                raw_data |-> filtered, stats |-> stats])]

(***************************************************************************)
(* The body of the innermost loop of comparison_MWD_con.py (lines 48-68),  *)
(* as the frame of its locals when the iteration ends.  norm is the value  *)
(* np.trapz(y, x) takes, in units of 1e-9.                                 *)
(***************************************************************************)
FrameCon ==
    [lengths |-> None, stats |-> None, x |-> None, y |-> None, exit |-> ""]

ToInts(lengths) == [i \in 1..Len(lengths) |-> IntOf(lengths[i])]

conv_iteration(f, norm) ==
    IF ~f.exists THEN [FrameCon EXCEPT !.exit = "not_found"]
    ELSE
    LET read == read_chain_lengths_con(f) IN
    IF read.raised THEN [FrameCon EXCEPT !.exit = "ValueError"]
    ELSE
    LET lengths == read.value
        F1 == [FrameCon EXCEPT !.lengths = Some(lengths)]
    IN
    IF Len(lengths) = 0 THEN [F1 EXCEPT !.exit = "empty"]
    ELSE
    LET F2 == [F1 EXCEPT !.stats = Some(MomentsCon(ToInts(lengths)))] IN
    IF gaussian_kde_weighted_raises(lengths) THEN [F2 EXCEPT !.exit = "KdeError"]
    ELSE
    LET x == linspace(Frac(SeqMin(lengths), 1), Frac(SeqMax(lengths), 1), NumPoints)
        y == [area |-> Frac(norm, norm)]
    IN [F2 EXCEPT !.x = Some(x), !.y = Some(y), !.exit = "plotted"]

(***************************************************************************)
(* One file through one driver.                                            *)
(***************************************************************************)
Drivers == {"con", "con50"}
NoLoop == [a |-> 0, b |-> 0, c |-> 0]

Init ==
    /\ driver \in Drivers
    /\ file \in Files(MaxTokens)
    /\ pc = "start"
    /\ frame = None
    /\ loop = NoLoop
    /\ processed_datasets = <<>>
    /\ successful_plots = 0
    /\ figures = 0
    /\ sample = <<>>
    /\ bins = 0
    /\ result = None

Rest == UNCHANGED <<loop, processed_datasets, successful_plots, figures, sample, bins, result>>

ProcessCon50 ==
    /\ driver = "con50"
    /\ pc = "start"
    /\ \E norm \in NormFactors :
          frame' = Some(process_and_get_mwd_data(file, "1e5", norm))
    /\ pc' = "returned"
    /\ UNCHANGED <<driver, file>>
    /\ Rest

IterateCon ==
    /\ driver = "con"
    /\ pc = "start"
    /\ \E norm \in NormFactors :
          /\ frame' = Some(conv_iteration(file, norm))
          /\ pc' = IF conv_iteration(file, norm).exit \in {"ValueError", "KdeError"}
                   THEN "raised" ELSE "returned"
    /\ UNCHANGED <<driver, file>>
    /\ Rest

Next == ProcessCon50 \/ IterateCon

Spec == Init /\ [][Next]_vars

(***************************************************************************)
(* np.histogram(data, bins): the range is [min, max], widened by 0.5 on    *)
(* each side when min = max; edges in units of 1/(2*bins).                 *)
(***************************************************************************)
HistScale(nbins) == 2 * nbins

np_histogram(data, nbins) ==
    LET S == HistScale(nbins)
        lo == IF data = <<>> THEN 0 ELSE SeqMin(data)
        hi == IF data = <<>> THEN 1 ELSE SeqMax(data)
        first == IF lo = hi THEN S * lo - nbins ELSE S * lo
        step == IF lo = hi THEN 2 ELSE 2 * (hi - lo)
        edges == [i \in 1..(nbins + 1) |-> first + (i - 1) * step]
        InBin(v, i) == /\ edges[i] <= S * v
                       /\ \/ S * v < edges[i + 1]
                          \/ i = nbins /\ S * v = edges[i + 1]
        counts == [i \in 1..nbins |->
                      Cardinality({k \in 1..Len(data) : InBin(data[k], i)})]
    IN [counts |-> counts, edges |-> edges]

(***************************************************************************)
(* calculate_weight_fraction_histogram(data, bins) of                      *)
(* comparison_MWD_con_50.py.  Edges are fractions over 2*bins, centers     *)
(* over 4*bins.  Before it, a faulty variant that does not divide by the   *)
(* bin widths.                                                             *)
(***************************************************************************)
weight_fraction_without_widths(data, nbins) ==
    LET S == HistScale(nbins)
        h == np_histogram(data, nbins)
        centers2 == [i \in 1..nbins |-> h.edges[i + 1] + h.edges[i]]
        weight_counts == [i \in 1..nbins |-> h.counts[i] * centers2[i]]
        total_weight == SeqSum(weight_counts)
    IN [bin_edges |-> [i \in 1..(nbins + 1) |-> Frac(h.edges[i], S)],
        weight_fraction |-> [i \in 1..nbins |->
            IF total_weight <= 0 THEN Frac(0, 1)
            ELSE Frac(weight_counts[i], total_weight)],
        bin_centers |-> [i \in 1..nbins |-> Frac(centers2[i], 2 * S)],
        counts |-> h.counts]

calculate_weight_fraction_histogram(data, nbins) ==
    LET S == HistScale(nbins)
        h == np_histogram(data, nbins)
        bin_edges == [i \in 1..(nbins + 1) |-> Frac(h.edges[i], S)]
        centers2 == [i \in 1..nbins |-> h.edges[i + 1] + h.edges[i]]
        bin_centers == [i \in 1..nbins |-> Frac(centers2[i], 2 * S)]
        weight_counts == [i \in 1..nbins |-> h.counts[i] * centers2[i]]
        total_weight == SeqSum(weight_counts)
        widths == [i \in 1..nbins |-> h.edges[i + 1] - h.edges[i]]
    IN IF total_weight <= 0
       THEN [bin_edges |-> bin_edges,
             weight_fraction |-> [i \in 1..nbins |-> Frac(0, 1)],
             bin_centers |-> bin_centers, counts |-> h.counts]
       ELSE [bin_edges |-> bin_edges,
             weight_fraction |-> [i \in 1..nbins |->
                 Frac(weight_counts[i] * S, total_weight * widths[i])],
             bin_centers |-> bin_centers, counts |-> h.counts]

(***************************************************************************)
(* The batch of comparison_MWD_con.py (lines 40-81): loop.a, loop.b and    *)
(* loop.c index subfolders, bases and conv_points.                         *)
(***************************************************************************)
BatchRest == UNCHANGED <<driver, file, sample, bins>>

ConIterate ==
    /\ driver = "con"
    /\ pc = "loop"
    /\ \E f \in Files(MaxBatchTokens), norm \in NormFactors :
          LET fr == conv_iteration(f, norm) IN
          IF fr.exit \in {"ValueError", "KdeError"}
          THEN /\ pc' = "terminated"
               /\ frame' = Some(fr)
               /\ UNCHANGED loop
          ELSE /\ frame' = None
               /\ IF loop.c < Len(conv_points)
                  THEN pc' = "loop" /\ loop' = [loop EXCEPT !.c = loop.c + 1]
                  ELSE pc' = "axes_done" /\ UNCHANGED loop
    /\ UNCHANGED <<processed_datasets, successful_plots, figures, result>>
    /\ BatchRest

ConNextAxes ==
    /\ driver = "con"
    /\ pc = "axes_done"
    /\ loop.b < Len(bases)
    /\ loop' = [loop EXCEPT !.b = loop.b + 1, !.c = 1]
    /\ pc' = "loop"
    /\ UNCHANGED <<frame, processed_datasets, successful_plots, figures, result>>
    /\ BatchRest

ConSaveFigure ==
    /\ driver = "con"
    /\ pc = "axes_done"
    /\ loop.b = Len(bases)
    /\ figures' = figures + 1
    /\ IF loop.a < Len(subfolders)
       THEN pc' = "loop" /\ loop' = [a |-> loop.a + 1, b |-> 1, c |-> 1]
       ELSE pc' = "finished" /\ UNCHANGED loop
    /\ UNCHANGED <<frame, processed_datasets, successful_plots, result>>
    /\ BatchRest

(***************************************************************************)
(* The batch of comparison_MWD_con_50.py: main (lines 243-256) around      *)
(* create_plot_for_folder (lines 156-241); loop.a indexes folders, loop.b  *)
(* datasets_info.                                                          *)
(***************************************************************************)
Con50Process ==
    /\ driver = "con50"
    /\ pc = "datasets"
    /\ \E f \in Files(MaxBatchTokens), norm \in NormFactors :
          LET info == datasets_info[loop.b]
              processed_data == process_and_get_mwd_data(f, info.label_prefix, norm).ret
          IN processed_datasets' =
                IF processed_data # None
                THEN Append(processed_datasets,
                            [data |-> Get(processed_data), style |-> info.style])
                ELSE processed_datasets
    /\ IF loop.b < Len(datasets_info)
       THEN pc' = "datasets" /\ loop' = [loop EXCEPT !.b = loop.b + 1]
       ELSE pc' = "plot" /\ UNCHANGED loop
    /\ UNCHANGED <<frame, successful_plots, figures, result>>
    /\ BatchRest

Con50Plot ==
    /\ driver = "con50"
    /\ pc = "plot"
    /\ LET plot_successful_count == Len(processed_datasets)
           bars == [i \in 1..Len(processed_datasets) |->
                      IF processed_datasets[i].style = "histogram"
                      THEN Some(calculate_weight_fraction_histogram(
                                   processed_datasets[i].data.raw_data, NumBins))
                      ELSE None]
       IN /\ result' = Some(bars)
          /\ IF plot_successful_count > 0
             THEN figures' = figures + 1 /\ successful_plots' = successful_plots + 1
             ELSE UNCHANGED <<figures, successful_plots>>
    /\ processed_datasets' = <<>>
    /\ IF loop.a < Len(folders)
       THEN pc' = "datasets" /\ loop' = [loop EXCEPT !.a = loop.a + 1, !.b = 1]
       ELSE pc' = "summary" /\ UNCHANGED loop
    /\ UNCHANGED frame
    /\ BatchRest

Con50Summary ==
    /\ driver = "con50"
    /\ pc = "summary"
    /\ pc' = "finished"
    /\ UNCHANGED <<frame, loop, processed_datasets, successful_plots, figures, result>>
    /\ BatchRest

InitBatch ==
    /\ driver \in Drivers
    /\ pc = IF driver = "con" THEN "loop" ELSE "datasets"
    /\ loop = [a |-> 1, b |-> 1, c |-> 1]
    /\ file = MissingFile
    /\ frame = None
    /\ processed_datasets = <<>>
    /\ successful_plots = 0
    /\ figures = 0
    /\ sample = <<>>
    /\ bins = 0
    /\ result = None

NextBatch ==
    \/ ConIterate
    \/ ConNextAxes
    \/ ConSaveFigure
    \/ Con50Process
    \/ Con50Plot
    \/ Con50Summary

SpecBatch == InitBatch /\ [][NextBatch]_vars

(***************************************************************************)
(* The moment computation of comparison_MWD_con.py on int64 arrays of      *)
(* positive integers, among them values int() reads whose square exceeds   *)
(* 2^63.                                                                   *)
(***************************************************************************)
Two32 == MkInt(FALSE, <<0, 0, 0, 0, 1>>)
Two32Plus1 == MkInt(FALSE, <<1, 0, 0, 0, 1>>)
MomentValues == {IntOf(3), IntOf(12), Two32, Two32Plus1}

InitMoments ==
    /\ driver = "con"
    /\ pc = "start"
    /\ sample \in UNION {[1..k -> MomentValues] : k \in 1..MaxSample}
    /\ result = None
    /\ file = MissingFile
    /\ frame = None
    /\ loop = NoLoop
    /\ processed_datasets = <<>>
    /\ successful_plots = 0
    /\ figures = 0
    /\ bins = 0

ComputeMoments ==
    /\ pc = "start"
    /\ result' = Some(MomentsCon(sample))
    /\ pc' = "returned"
    /\ UNCHANGED <<driver, file, frame, loop, processed_datasets,
                   successful_plots, figures, sample, bins>>

SpecMoments == InitMoments /\ [][ComputeMoments]_vars

(***************************************************************************)
(* calculate_weight_fraction_histogram on samples of positive integers.    *)
(***************************************************************************)
BinCounts == (1..MaxBins) \cup {NumBins}

InitHist ==
    /\ driver = "con50"
    /\ pc = "start"
    /\ sample \in UNION {[1..k -> 1..MaxHistVal] : k \in 1..MaxHistLen}
    /\ bins \in BinCounts
    /\ result = None
    /\ file = MissingFile
    /\ frame = None
    /\ loop = NoLoop
    /\ processed_datasets = <<>>
    /\ successful_plots = 0
    /\ figures = 0

ComputeHistogram ==
    /\ pc = "start"
    /\ result' = Some(calculate_weight_fraction_histogram(sample, bins))
    /\ pc' = "returned"
    /\ UNCHANGED <<driver, file, frame, loop, processed_datasets,
                   successful_plots, figures, sample, bins>>

SpecHist == InitHist /\ [][ComputeHistogram]_vars

(***************************************************************************)
(* Helpers of the properties.                                              *)
(***************************************************************************)
RECURSIVE Gcd(_, _)
Gcd(a, b) == IF b = 0 THEN a ELSE Gcd(b, a % b)
Reduce(q) == LET g == Gcd(q[1], q[2]) IN IF g = 0 THEN q ELSE Frac(q[1] \div g, q[2] \div g)
FracAdd(a, b) == Reduce(Frac(a[1] * b[2] + b[1] * a[2], a[2] * b[2]))
FracSub(a, b) == Reduce(Frac(a[1] * b[2] - b[1] * a[2], a[2] * b[2]))
FracMul(a, b) == Reduce(Frac(a[1] * b[1], a[2] * b[2]))
FracIsOne(a) == a[2] # 0 /\ a[1] = a[2]
FracFinite(a) == a[2] # 0

Lcm(a, b) == (a \div Gcd(a, b)) * b

RECURSIVE LcmSeq(_)
LcmSeq(s) == IF s = <<>> THEN 1 ELSE Lcm(s[1], LcmSeq(Tail(s)))

(* The sum of a sequence of fractions with positive denominators. *)
FracSeqSum(s) ==
    LET r == [i \in 1..Len(s) |-> Reduce(s[i])]
        D == LcmSeq([i \in 1..Len(s) |-> r[i][2]])
    IN Reduce(Frac(SeqSum([i \in 1..Len(s) |-> r[i][1] * (D \div r[i][2])]), D))

Done == pc \in {"returned", "raised"}
Fr == Get(frame)

(* Exact rationals over integers of any size: equality and order. *)
QFinite(a) == ~IntIsZero(a.den)
QEq(a, b) == QFinite(a) /\ QFinite(b) /\ IntMul(a.num, b.den) = IntMul(b.num, a.den)
QLeq(a, b) ==
    /\ QFinite(a) /\ QFinite(b)
    /\ LET l == IntMul(a.num, b.den)
           r == IntMul(b.num, a.den)
       IN IF a.den.neg = b.den.neg THEN IntCmp(l, r) <= 0 ELSE IntCmp(l, r) >= 0
ExactSum(s) == float_sum(s)
ExactSumSq(s) == float_sum([i \in 1..Len(s) |-> IntMul(s[i], s[i])])

(***************************************************************************)
(* C1: for every non-empty sample of positive integers the moment          *)
(* computation yields Mn = sum/N, Mw = (sum of squares)/sum and            *)
(* PDI = Mw/Mn, with Mw >= Mn and Mw = Mn exactly when all elements are    *)
(* equal.  Stated of comparison_MWD_con.py's computation (SpecMoments).    *)
(***************************************************************************)
C1_MomentsOfPositiveSample ==
    pc = "returned" =>
        LET st == Get(result)
            N == IntOf(Len(sample))
            S1 == ExactSum(sample)
            S2 == ExactSumSq(sample)
        IN /\ QEq(st.Mn, [num |-> S1, den |-> N])
           /\ QEq(st.Mw, [num |-> S2, den |-> S1])
           /\ QEq(st.PDI, [num |-> IntMul(S2, N), den |-> IntMul(S1, S1)])
           /\ QLeq(st.Mn, st.Mw)
           /\ (QEq(st.Mw, st.Mn) <=> \A i \in 1..Len(sample) : sample[i] = sample[1])

(***************************************************************************)
(* C2: in both batch drivers no per-file failure terminates the batch; the *)
(* run ends only after every dataset of every folder has been visited      *)
(* (SpecBatch).                                                            *)
(***************************************************************************)
C2_NoFailureTerminatesBatch ==
    /\ pc # "terminated"
    /\ (pc = "finished" /\ driver = "con") =>
           loop = [a |-> Len(subfolders), b |-> Len(bases), c |-> Len(conv_points)]
    /\ (pc = "finished" /\ driver = "con50") =>
           (loop.a = Len(folders) /\ loop.b = Len(datasets_info))

(***************************************************************************)
(* C3: the loader returns exactly the tokens that parse as integers, in    *)
(* file order with duplicates kept; a token that fails to parse is dropped *)
(* and never makes the load fail.                                          *)
(***************************************************************************)
ParsedTokens(f) ==
    LET ok == SelectSeq(f.tokens, int_parses)
    IN [i \in 1..Len(ok) |-> int_value(ok[i])]

C3_LoaderKeepsParsableTokens ==
    (Done /\ file.exists) =>
        IF driver = "con50"
        THEN Fr.chain_lengths = Some(ParsedTokens(file))
        ELSE Fr.exit # "ValueError" /\ Fr.lengths = Some(ParsedTokens(file))

(***************************************************************************)
(* C4, as claimed: process_and_get_mwd_data returns None or a result whose *)
(* Mn, Mw and PDI are defined and whose curve has unit area, never an      *)
(* all-zero curve.                                                         *)
(***************************************************************************)
StatsDefined(st) ==
    FracFinite(st.Mn) /\ FracFinite(st.Mw) /\ FracFinite(st.PDI)

KeptIndices(s) == {i \in 1..Len(s) : s[i] >= 3}
KthKept(s, k) ==
    CHOOSE i \in KeptIndices(s) : Cardinality({j \in KeptIndices(s) : j <= i}) = k

C5_FilterKeepsOrderAndCounts ==
    (Done /\ driver = "con50" /\ Fr.filtered_chain_lengths # None) =>
        LET original == Get(read_chain_lengths_50(file))
            kept == Get(Fr.filtered_chain_lengths)
        IN /\ Len(kept) = Cardinality(KeptIndices(original))
           /\ \A k \in 1..Len(kept) : kept[k] = original[KthKept(original, k)]
           /\ Get(Fr.removed_chains) = Len(original) - Len(kept)
           /\ Get(Fr.total_chains) = Len(original)
           /\ Fr.chain_lengths = Some(original)
           /\ kept = <<>> =>
                 (Fr.ret = None /\ Fr.stats = None /\ Fr.y_vals = None
                  /\ Fr.exit = "none_valid")

C5_Witness ==
    /\ Done /\ driver = "con50"
    /\ Fr.chain_lengths = Some(<<12, 2, 3>>)
    /\ Fr.filtered_chain_lengths = Some(<<12, 3>>)
    /\ Fr.removed_chains = Some(1)

(***************************************************************************)
(* C6: for every non-empty sample of positive integers and every bin count *)
(* N >= 1, calculate_weight_fraction_histogram returns N+1 ordered edges,  *)
(* N centers and N non-negative values, each                               *)
(* (bin count x bin center)/(total weighted sum x bin width), so that the  *)
(* sum of value x width is 1; the bin counts sum to the sample size        *)
(* (SpecHist).                                                             *)
(***************************************************************************)
C6_HistogramUnitArea ==
    pc = "returned" =>
        LET h == Get(result)
            width(i) == FracSub(h.bin_edges[i + 1], h.bin_edges[i])
            weighted(i) == FracMul(Frac(h.counts[i], 1), h.bin_centers[i])
            total == FracSeqSum([i \in 1..bins |-> weighted(i)])
        IN /\ Len(h.bin_edges) = bins + 1
           /\ Len(h.bin_centers) = bins
           /\ Len(h.weight_fraction) = bins
           /\ \A i \in 1..bins : FracLess(h.bin_edges[i], h.bin_edges[i + 1])
           /\ h.bin_edges[1][1] * 1 <= SeqMin(sample) * h.bin_edges[1][2]
           /\ SeqMax(sample) * h.bin_edges[bins + 1][2] <= h.bin_edges[bins + 1][1]
           /\ \A i \in 1..bins :
                 FracEq(FracAdd(h.bin_centers[i], h.bin_centers[i]),
                        FracAdd(h.bin_edges[i], h.bin_edges[i + 1]))
           /\ \A i \in 1..bins :
                 /\ h.weight_fraction[i][1] >= 0 /\ h.weight_fraction[i][2] > 0
                 /\ FracEq(FracMul(h.weight_fraction[i], FracMul(total, width(i))),
                           weighted(i))
           /\ FracIsOne(FracSeqSum([i \in 1..bins |->
                                      FracMul(h.weight_fraction[i], width(i))]))
           /\ SeqSum(h.counts) = Len(sample)

C6_Witness ==
    /\ pc = "returned"
    /\ bins = NumBins
    /\ sample = <<1, 4, 4>>
    /\ Get(result).counts[1] = 1
    /\ Get(result).counts[NumBins] = 2
    /\ Get(result).counts[2] = 0

(***************************************************************************)
(* C7: every element of a sample returned by the loader is an integer      *)
(* >= 1, for every file content.                                           *)
(***************************************************************************)
C7_LoadedElementsPositive ==
    Done =>
        LET loaded == IF driver = "con50" THEN Fr.chain_lengths ELSE Fr.lengths
        IN loaded # None => \A i \in 1..Len(Get(loaded)) : Get(loaded)[i] >= 1

(***************************************************************************)
(* C8: whenever the sample handed to the moment computation is empty or    *)
(* sums to zero, no Mw or PDI is produced, in both drivers.                *)
(***************************************************************************)
C8_NoMomentsOfZeroSum ==
    Done =>
        LET handed == IF driver = "con50" THEN Fr.filtered_chain_lengths ELSE Fr.lengths
        IN (handed # None /\ SeqSum(Get(handed)) = 0) => Fr.stats = None

(***************************************************************************)
(* C9: loading a nonexistent path yields None (NotFound), loading a        *)
(* readable file with no numeric token yields the empty array              *)
(* (ParseEmpty); the two differ from each other and from a successful      *)
(* load, and in both cases the dataset is skipped with no statistics and   *)
(* no curve.                                                               *)
(***************************************************************************)
HasNumericToken(f) == \E i \in 1..Len(f.tokens) : str_isdigit(f.tokens[i])

GridNum(g, i) ==
    g.lo[1] * g.hi[2] * (g.n - 1) + i * (g.hi[1] * g.lo[2] - g.lo[1] * g.hi[2])

C10_GridBounds ==
    Done =>
        LET grid == IF driver = "con50" THEN Fr.x_vals ELSE Fr.x
        IN grid # None =>
              LET g == Get(grid) IN
              /\ g.lo[1] >= 0
              /\ FracLess(g.lo, g.hi)
              /\ g.n = NumPoints
              /\ \A i \in 0..(g.n - 2) : GridNum(g, i) < GridNum(g, i + 1)
====
